---- MODULE Spec2Model ----
(***************************************************************************)
(* JsonEditDistanceEvaluator                                               *)
(* (libs/langchain/langchain/evaluation/parsing/json_distance.py).         *)
(*                                                                         *)
(* Python values are tagged records:                                       *)
(*   None   [t |-> "None"]                                                 *)
(*   bool   [t |-> "bool", b |-> TRUE]                                     *)
(*   int    [t |-> "int",  n |-> 1]                                        *)
(*   str    [t |-> "str",  s |-> <<"a", "b">>]   (a sequence of characters) *)
(*   list   [t |-> "list", items |-> <<v1, v2>>]                           *)
(*   dict   [t |-> "dict", pairs |-> << <<k1, v1>>, <<k2, v2>> >>]         *)
(* A dict keeps its pairs in insertion order, as a Python dict does; its   *)
(* keys are character sequences (str keys).                                *)
(***************************************************************************)
EXTENDS Integers, Sequences, FiniteSets, TLC

VARIABLES
    rapidfuzz,          \* environment: is the rapidfuzz package importable
    pc,                 \* "new" | "ready" (instance built) | "ImportError"
    init_args,          \* the arguments __init__ was called with
    _string_distance,   \* self._string_distance ("unset" before construction)
    _canonicalize,      \* self._canonicalize    ("unset" before construction)
    stage,              \* position inside _evaluate_strings
    prediction,         \* the call's arguments
    input,
    reference,
    node,               \* value last returned by _parse_json
    parsed,             \* local `parsed`  of _evaluate_strings
    label,              \* local `label`   of _evaluate_strings
    distance,           \* local `distance` of _evaluate_strings
    outcome,            \* what the call gave its caller: a result dict or a raised error
    trace,              \* the calls _evaluate_strings has made so far, in order
    seen,               \* one earlier finished call of this instance, kept for comparison
    m1, m2,             \* canonicalizer run: two values to canonicalize
    depth,              \* canonicalizer run: nesting depth of m1 and m2
    canon1, canon2      \* canonicalizer run: the canonical strings

evalVars == <<stage, prediction, input, reference, node, parsed, label, distance,
              outcome, trace, seen>>
instVars == <<rapidfuzz, pc, init_args, _string_distance, _canonicalize>>
canonVars == <<m1, m2, depth, canon1, canon2>>
vars == <<instVars, evalVars, canonVars>>

----------------------------------------------------------------------------
(* Bounds *)

\* nesting depth of the values the canonicalizer run builds
MaxDepth == 2

----------------------------------------------------------------------------
(* Characters and strings *)

\* the character U+0060 (grave accent), which opens and closes a code fence
Backtick == "BACKTICK"

\* the characters in use, in code point order
Alphabet == <<"\n", " ", "\"", ",", "-", "0", "1", "2", "3", "4", "5", "6", "7",
              "8", "9", ":", "B", "[", "\\", "]", Backtick, "a", "b", "e", "f", "j",
              "l", "n", "o", "r", "s", "t", "u", "x", "{", "}">>

\* rank of a character in code point order
Ord(c) == CHOOSE i \in 1..Len(Alphabet) : Alphabet[i] = c

\* Python's str.__lt__: lexicographic by code point, a proper prefix is smaller
RECURSIVE StrLess(_, _)
StrLess(a, b) ==
    IF b = <<>> THEN FALSE
    ELSE IF a = <<>> THEN TRUE
    ELSE IF Head(a) = Head(b) THEN StrLess(Tail(a), Tail(b))
    ELSE Ord(Head(a)) < Ord(Head(b))

Digits == <<"0", "1", "2", "3", "4", "5", "6", "7", "8", "9">>

\* int.__repr__ as json.dumps renders an int
RECURSIVE NatRepr(_)
NatRepr(n) ==
    IF n < 10 THEN <<Digits[n + 1]>>
    ELSE NatRepr(n \div 10) \o <<Digits[(n % 10) + 1]>>

IntRepr(n) == IF n < 0 THEN <<"-">> \o NatRepr(0 - n) ELSE NatRepr(n)

----------------------------------------------------------------------------
(* Python values *)

PyNone == [t |-> "None"]
PyBool(b) == [t |-> "bool", b |-> b]
PyInt(n) == [t |-> "int", n |-> n]
PyStr(s) == [t |-> "str", s |-> s]
PyList(items) == [t |-> "list", items |-> items]
PyDict(pairs) == [t |-> "dict", pairs |-> pairs]

\* isinstance(node, str)
IsStr(v) == v.t = "str"

\* a local that is not bound yet
Unbound == [t |-> "unbound"]

\* no call has finished
NoOutcome == [kind |-> "none"]

----------------------------------------------------------------------------
(* json.dumps *)

\* json.encoder.py_encode_basestring_ascii on the characters in use
RECURSIVE EscapeChars(_)
EscapeChars(s) ==
    IF s = <<>> THEN <<>>
    ELSE (CASE Head(s) = "\"" -> <<"\\", "\"">>
            [] Head(s) = "\\" -> <<"\\", "\\">>
            [] Head(s) = "\n" -> <<"\\", "n">>
            [] OTHER -> <<Head(s)>>) \o EscapeChars(Tail(s))

EncodeStr(s) == <<"\"">> \o EscapeChars(s) \o <<"\"">>

\* insert a pair into a list of pairs sorted by key
RECURSIVE InsertSorted(_, _)
InsertSorted(p, ps) ==
    IF ps = <<>> THEN <<p>>
    ELSE IF StrLess(p[1], Head(ps)[1]) THEN <<p>> \o ps
    ELSE <<Head(ps)>> \o InsertSorted(p, Tail(ps))

\* sorted(dct.items()) of json.encoder with sort_keys=True
RECURSIVE SortedItems(_)
SortedItems(ps) ==
    IF ps = <<>> THEN <<>> ELSE InsertSorted(Head(ps), SortedItems(Tail(ps)))

\* json.dumps(x, separators=(item_sep, key_sep), sort_keys=sort_keys)
RECURSIVE dumps(_, _, _, _), DumpItems(_, _, _, _), DumpPairs(_, _, _, _)
dumps(x, item_sep, key_sep, sort_keys) ==
    CASE x.t = "None" -> <<"n", "u", "l", "l">>
      [] x.t = "bool" -> IF x.b THEN <<"t", "r", "u", "e">>
                                ELSE <<"f", "a", "l", "s", "e">>
      [] x.t = "int" -> IntRepr(x.n)
      [] x.t = "str" -> EncodeStr(x.s)
      [] x.t = "list" -> <<"[">> \o DumpItems(x.items, item_sep, key_sep, sort_keys)
                              \o <<"]">>
      [] x.t = "dict" ->
            <<"{">> \o DumpPairs(IF sort_keys THEN SortedItems(x.pairs) ELSE x.pairs,
                                 item_sep, key_sep, sort_keys)
                    \o <<"}">>

DumpItems(items, item_sep, key_sep, sort_keys) ==
    IF items = <<>> THEN <<>>
    ELSE dumps(Head(items), item_sep, key_sep, sort_keys)
         \o (IF Tail(items) = <<>> THEN <<>>
             ELSE item_sep \o DumpItems(Tail(items), item_sep, key_sep, sort_keys))

DumpPairs(ps, item_sep, key_sep, sort_keys) ==
    IF ps = <<>> THEN <<>>
    ELSE EncodeStr(Head(ps)[1]) \o key_sep
         \o dumps(Head(ps)[2], item_sep, key_sep, sort_keys)
         \o (IF Tail(ps) = <<>> THEN <<>>
             ELSE item_sep \o DumpPairs(Tail(ps), item_sep, key_sep, sort_keys))

\* json.dumps(x, separators=(",", ":")), the sort_keys argument forgotten
UnsortedCanonicalize(x) == dumps(x, <<",">>, <<":">>, FALSE)

\* the default canonicalizer: lambda x: json.dumps(x, separators=(",", ":"), sort_keys=True)
DefaultCanonicalize(x) == dumps(x, <<",">>, <<":">>, TRUE)

\* a canonicalizer a caller may supply: plain json.dumps(x)
PlainDumps(x) == dumps(x, <<",", " ">>, <<":", " ">>, FALSE)

----------------------------------------------------------------------------
(* The markdown-JSON extractor, langchain.output_parsers.json               *)
(* .parse_json_markdown: take what a code fence encloses when the text has  *)
(* one, strip it, and parse it as JSON; fail with a parse error otherwise.  *)

IsSpace(c) == c \in {" ", "\n"}

\* the first position >= i of s that holds no white space (Len(s) + 1 when none)
RECURSIVE SkipWs(_, _)
SkipWs(s, i) == IF i <= Len(s) /\ IsSpace(s[i]) THEN SkipWs(s, i + 1) ELSE i

\* does s hold the characters of lit from position i on
StartsWith(s, i, lit) ==
    /\ i + Len(lit) - 1 <= Len(s)
    /\ \A k \in 1..Len(lit) : s[i + k - 1] = lit[k]

ParseFail == [ok |-> FALSE, val |-> PyNone, pos |-> 0]
ParseOk(v, p) == [ok |-> TRUE, val |-> v, pos |-> p]

DigitValue(c) == (CHOOSE k \in 1..10 : Digits[k] = c) - 1
IsDigit(c) == \E k \in 1..10 : Digits[k] = c

\* the digits of a JSON number from position i on; acc is the value so far
RECURSIVE ScanDigits(_, _, _)
ScanDigits(s, i, acc) ==
    IF i <= Len(s) /\ IsDigit(s[i])
    THEN ScanDigits(s, i + 1, acc * 10 + DigitValue(s[i]))
    ELSE ParseOk(acc, i)

\* a JSON integer at position i: -? (0 | [1-9][0-9]*)
ScanInt(s, i) ==
    LET neg == s[i] = "-"
        j == IF neg THEN i + 1 ELSE i
    IN IF j > Len(s) \/ ~IsDigit(s[j]) THEN ParseFail
       ELSE LET r == IF s[j] = "0" THEN ParseOk(0, j + 1) ELSE ScanDigits(s, j, 0)
            IN ParseOk(PyInt(IF neg THEN 0 - r.val ELSE r.val), r.pos)

\* the characters of a JSON string whose opening quote precedes position i
RECURSIVE ScanString(_, _, _)
ScanString(s, i, acc) ==
    IF i > Len(s) THEN ParseFail
    ELSE IF s[i] = "\"" THEN ParseOk(acc, i + 1)
    ELSE IF s[i] = "\n" THEN ParseFail
    ELSE IF s[i] = "\\"
         THEN IF i + 1 > Len(s) THEN ParseFail
              ELSE IF s[i + 1] \in {"\"", "\\"}
                   THEN ScanString(s, i + 2, Append(acc, s[i + 1]))
              ELSE IF s[i + 1] = "n" THEN ScanString(s, i + 2, Append(acc, "\n"))
              ELSE ParseFail
    ELSE ScanString(s, i + 1, Append(acc, s[i]))

\* dict.__setitem__: a key already present keeps its place and takes the new value
SetItem(pairs, k, v) ==
    IF \E i \in 1..Len(pairs) : pairs[i][1] = k
    THEN [i \in 1..Len(pairs) |-> IF pairs[i][1] = k THEN <<k, v>> ELSE pairs[i]]
    ELSE Append(pairs, <<k, v>>)

\* a JSON value at the first non-space position >= i
RECURSIVE ParseValue(_, _), ParseElements(_, _, _), ParseMembers(_, _, _)
ParseValue(s, i) ==
    LET j == SkipWs(s, i) IN
    IF j > Len(s) THEN ParseFail
    ELSE IF s[j] = "{"
         THEN IF SkipWs(s, j + 1) <= Len(s) /\ s[SkipWs(s, j + 1)] = "}"
              THEN ParseOk(PyDict(<<>>), SkipWs(s, j + 1) + 1)
              ELSE ParseMembers(s, j + 1, <<>>)
    ELSE IF s[j] = "["
         THEN IF SkipWs(s, j + 1) <= Len(s) /\ s[SkipWs(s, j + 1)] = "]"
              THEN ParseOk(PyList(<<>>), SkipWs(s, j + 1) + 1)
              ELSE ParseElements(s, j + 1, <<>>)
    ELSE IF s[j] = "\""
         THEN LET r == ScanString(s, j + 1, <<>>)
              IN IF r.ok THEN ParseOk(PyStr(r.val), r.pos) ELSE ParseFail
    ELSE IF s[j] = "-" \/ IsDigit(s[j]) THEN ScanInt(s, j)
    ELSE IF StartsWith(s, j, <<"n", "u", "l", "l">>) THEN ParseOk(PyNone, j + 4)
    ELSE IF StartsWith(s, j, <<"t", "r", "u", "e">>) THEN ParseOk(PyBool(TRUE), j + 4)
    ELSE IF StartsWith(s, j, <<"f", "a", "l", "s", "e">>)
         THEN ParseOk(PyBool(FALSE), j + 5)
    ELSE ParseFail

\* the elements of a JSON array, from position i on, after those in acc
ParseElements(s, i, acc) ==
    LET r == ParseValue(s, i) IN
    IF ~r.ok THEN ParseFail
    ELSE LET j == SkipWs(s, r.pos) IN
         IF j > Len(s) THEN ParseFail
         ELSE IF s[j] = "," THEN ParseElements(s, j + 1, Append(acc, r.val))
         ELSE IF s[j] = "]" THEN ParseOk(PyList(Append(acc, r.val)), j + 1)
         ELSE ParseFail

\* the members of a JSON object, from position i on, after those in acc
ParseMembers(s, i, acc) ==
    LET j == SkipWs(s, i) IN
    IF j > Len(s) \/ s[j] # "\"" THEN ParseFail
    ELSE LET k == ScanString(s, j + 1, <<>>) IN
         IF ~k.ok THEN ParseFail
         ELSE LET c == SkipWs(s, k.pos) IN
              IF c > Len(s) \/ s[c] # ":" THEN ParseFail
              ELSE LET r == ParseValue(s, c + 1) IN
                   IF ~r.ok THEN ParseFail
                   ELSE LET e == SkipWs(s, r.pos) IN
                        IF e > Len(s) THEN ParseFail
                        ELSE IF s[e] = ","
                             THEN ParseMembers(s, e + 1, SetItem(acc, k.val, r.val))
                        ELSE IF s[e] = "}"
                             THEN ParseOk(PyDict(SetItem(acc, k.val, r.val)), e + 1)
                        ELSE ParseFail

\* json.loads: one JSON value and nothing but white space after it
json_loads(s) ==
    LET r == ParseValue(s, 1) IN
    IF r.ok /\ SkipWs(s, r.pos) > Len(s) THEN r ELSE ParseFail

\* str.strip()
RECURSIVE StripRight(_)
StripRight(s) ==
    IF s # <<>> /\ IsSpace(s[Len(s)]) THEN StripRight(SubSeq(s, 1, Len(s) - 1)) ELSE s

Strip(s) == StripRight(SubSeq(s, SkipWs(s, 1), Len(s)))

\* the positions of s where three backticks start
FenceAt(s) == {i \in 1..Len(s) : StartsWith(s, i, <<Backtick, Backtick, Backtick>>)}

Min(S) == CHOOSE x \in S : \A y \in S : x <= y
Max(S) == CHOOSE x \in S : \A y \in S : y <= x

\* what the first fence and the last one enclose, an optional "json" tag after
\* the opening fence left out; the whole text when it has no pair of fences
FencedPart(s) ==
    LET F == FenceAt(s) IN
    IF F = {} \/ Max(F) < Min(F) + 3 THEN s
    ELSE LET open == Min(F) + 3
             from == IF StartsWith(s, open, <<"j", "s", "o", "n">>) THEN open + 4
                     ELSE open
         IN SubSeq(s, from, Max(F) - 1)

\* the error the extractor raises for a text it cannot parse
ParseError(text) == [kind |-> "ParseError", text |-> text]

\* parse_json_markdown(json_string): [ok, val] or [ok, err]
parse_json_markdown(json_string) ==
    LET r == json_loads(Strip(FencedPart(json_string))) IN
    IF r.ok THEN [ok |-> TRUE, val |-> r.val]
    ELSE [ok |-> FALSE, err |-> ParseError(json_string)]

----------------------------------------------------------------------------
(* String distances. A score is a Python float, kept here as the exact      *)
(* fraction [num, den] in lowest terms.                                     *)

RECURSIVE Gcd(_, _)
Gcd(a, b) == IF b = 0 THEN a ELSE Gcd(b, a % b)

Abs(n) == IF n < 0 THEN 0 - n ELSE n

Fraction(num, den) ==
    LET g == Gcd(Abs(num), den) IN [num |-> num \div g, den |-> den \div g]

Min3(x, y, z) == Min({x, y, z})

\* one cell of the Damerau-Levenshtein matrix: rows holds rows 0..i-1 and row
\* the cells 0..j-1 of row i (a sequence's index is the cell's index plus 1)
DLCell(a, b, i, j, rows, row) ==
    IF i = 0 THEN j
    ELSE IF j = 0 THEN i
    ELSE LET cost == IF a[i] = b[j] THEN 0 ELSE 1
             best == Min3(rows[i][j] + cost, row[j] + 1, rows[i][j + 1] + 1)
             K == {k \in 1..(i - 1) : a[k] = b[j]}
             L == {l \in 1..(j - 1) : b[l] = a[i]}
         IN IF K = {} \/ L = {} THEN best
            ELSE LET k == Max(K)
                     l == Max(L)
                 IN Min({best, rows[k][l] + (i - k - 1) + 1 + (j - l - 1)})

RECURSIVE DLRow(_, _, _, _, _)
DLRow(a, b, i, rows, row) ==
    IF Len(row) > Len(b) THEN row
    ELSE DLRow(a, b, i, rows, Append(row, DLCell(a, b, i, Len(row), rows, row)))

RECURSIVE DLRows(_, _, _)
DLRows(a, b, rows) ==
    IF Len(rows) > Len(a) THEN rows
    ELSE DLRows(a, b, Append(rows, DLRow(a, b, Len(rows), rows, <<>>)))

\* rapidfuzz.distance.DamerauLevenshtein.distance: insertions, deletions,
\* substitutions and transpositions of adjacent characters
DamerauLevenshtein(a, b) == DLRows(a, b, <<>>)[Len(a) + 1][Len(b) + 1]

\* rapidfuzz.distance.DamerauLevenshtein.normalized_distance
normalized_distance(a, b) ==
    LET maximum == IF Len(a) > Len(b) THEN Len(a) ELSE Len(b) IN
    IF maximum = 0 THEN Fraction(0, 1) ELSE Fraction(DamerauLevenshtein(a, b), maximum)

\* a distance a caller may supply: lambda a, b: float(len(a) - len(b)),
\* neither symmetric nor within [0, 1]
LengthDifference(a, b) == Fraction(Len(a) - Len(b), 1)

\* the callables a caller may pass as string_distance and as canonicalize
SuppliedDistances == {"LengthDifference"}
SuppliedCanonicalizers == {"PlainDumps"}

\* calling the callable f on (a, b)
CallDistance(f, a, b) ==
    CASE f = "normalized_distance" -> normalized_distance(a, b)
      [] f = "LengthDifference" -> LengthDifference(a, b)

\* calling the callable f on x
CallCanonicalize(f, x) ==
    CASE f = "DefaultCanonicalize" -> DefaultCanonicalize(x)
      [] f = "PlainDumps" -> PlainDumps(x)

----------------------------------------------------------------------------
(* JsonEditDistanceEvaluator *)

requires_input == FALSE
requires_reference == TRUE
evaluation_name == "json_edit_distance"

\* _parse_json with a parse failure caught and None returned in its place
parse_json_defaulting(n) ==
    IF IsStr(n)
    THEN LET r == parse_json_markdown(n.s)
         IN IF r.ok THEN r ELSE [ok |-> TRUE, val |-> PyNone]
    ELSE [ok |-> TRUE, val |-> n]

\* _parse_json rebuilding a dict it is given with its keys sorted
parse_json_normalising(n) ==
    IF IsStr(n) THEN parse_json_markdown(n.s)
    ELSE [ok |-> TRUE, val |-> IF n.t = "dict" THEN PyDict(SortedItems(n.pairs)) ELSE n]

\* _parse_json refusing None, as a check of requires_reference would
parse_json_requiring(n) ==
    IF n = PyNone THEN [ok |-> FALSE, err |-> [kind |-> "ValueError", text |-> <<>>]]
    ELSE IF IsStr(n) THEN parse_json_markdown(n.s)
    ELSE [ok |-> TRUE, val |-> n]

\* _parse_json(node): [ok, val] or [ok, err]; a str goes to the extractor, any
\* other value is returned as it is
_parse_json(n) ==
    IF IsStr(n) THEN parse_json_markdown(n.s) ELSE [ok |-> TRUE, val |-> n]

\* does _parse_json(node) call the extractor
CallsExtractor(n) == IsStr(n)

\* the reference canonicalized by the default canonicalizer, whatever is configured
canonicalize_reference_by_default(x) ==
    IF stage = "canonicalize reference" THEN DefaultCanonicalize(x)
    ELSE CallCanonicalize(_canonicalize, x)

\* self._canonicalize(x)
self_canonicalize(x) == CallCanonicalize(_canonicalize, x)

\* _distance with its result clamped to [0, 1]
clamped_distance(a, b) ==
    LET d == CallDistance(_string_distance, a, b) IN
    IF d.num < 0 THEN Fraction(0, 1)
    ELSE IF d.num > d.den THEN Fraction(1, 1)
    ELSE d

\* _distance(a, b)
_distance(a, b) == CallDistance(_string_distance, a, b)

\* the dict _evaluate_strings returns
Result(d) == [kind |-> "return", score |-> d]
\* an exception leaving _evaluate_strings
Raised(e) == [kind |-> "raise", err |-> e]

\* the body of _evaluate_strings with the reference handled first
StepsReferenceFirst == <<"parse reference", "canonicalize reference",
                         "parse prediction", "canonicalize prediction", "distance">>

\* the calls of the body of _evaluate_strings, in the order it makes them
Steps == <<"parse prediction", "canonicalize prediction",
           "parse reference", "canonicalize reference", "distance">>

\* the step after step st, "done" after the last
After(st) ==
    LET i == CHOOSE k \in 1..Len(Steps) : Steps[k] = st
    IN IF i = Len(Steps) THEN "done" ELSE Steps[i + 1]

\* the arguments of the calls made
Text(s) == PyStr(s)
InNull == PyNone
InDict == PyDict(<< <<<<"b">>, PyInt(2)>>, <<<<"a">>, PyInt(1)>> >>)
InJson == Text(<<"{", "\"", "a", "\"", ":", " ", "1", ",", " ", "\"", "b", "\"", ":", " ", "2", "}">>)
InFenced == Text(<<"x", Backtick, Backtick, Backtick, "j", "s", "o", "n", "\n", "[", "1", "]", Backtick, Backtick, Backtick>>)
InProse == Text(<<"n", "o">>)
InBroken == Text(<<"[", "1">>)

Arguments == {InNull, InDict, InJson, InFenced, InProse, InBroken}
InputArguments == {PyNone, Text(<<"x">>)}

NoArgs == [string_distance |-> "unset", canonicalize |-> "unset"]

Init ==
    /\ rapidfuzz \in BOOLEAN
    /\ pc = "new" /\ init_args = NoArgs
    /\ _string_distance = "unset" /\ _canonicalize = "unset"
    /\ stage = "idle" /\ prediction = PyNone /\ input = PyNone /\ reference = PyNone
    /\ node = Unbound /\ parsed = <<>> /\ label = <<>> /\ distance = Unbound
    /\ outcome = NoOutcome /\ trace = <<>> /\ seen = NoOutcome
    /\ m1 = PyNone /\ m2 = PyNone /\ depth = 0 /\ canon1 = <<>> /\ canon2 = <<>>

\* __init__ importing rapidfuzz before it looks at string_distance
ConstructEagerImport(sd, cn) ==
    /\ pc = "new"
    /\ init_args' = [string_distance |-> sd, canonicalize |-> cn]
    /\ IF ~rapidfuzz
       THEN /\ pc' = "ImportError"
            /\ UNCHANGED <<_string_distance, _canonicalize>>
       ELSE /\ _string_distance' = IF sd # "None" THEN sd ELSE "normalized_distance"
            /\ _canonicalize' = IF cn # "None" THEN cn ELSE "DefaultCanonicalize"
            /\ pc' = "ready"
    /\ UNCHANGED <<rapidfuzz, evalVars, canonVars>>

\* __init__(string_distance=sd, canonicalize=cn); "None" is the argument left out
Construct(sd, cn) ==
    /\ pc = "new"
    /\ init_args' = [string_distance |-> sd, canonicalize |-> cn]
    /\ IF sd # "None"
       THEN /\ _string_distance' = sd
            /\ _canonicalize' = IF cn # "None" THEN cn ELSE "DefaultCanonicalize"
            /\ pc' = "ready"
       ELSE IF rapidfuzz
            THEN /\ _string_distance' = "normalized_distance"
                 /\ _canonicalize' = IF cn # "None" THEN cn ELSE "DefaultCanonicalize"
                 /\ pc' = "ready"
            ELSE /\ pc' = "ImportError"
                 /\ UNCHANGED <<_string_distance, _canonicalize>>
    /\ UNCHANGED <<rapidfuzz, evalVars, canonVars>>

\* a caller enters _evaluate_strings(prediction=p, input=i, reference=r)
Call(p, i, r) ==
    /\ pc = "ready" /\ stage \in {"idle", "done"}
    /\ prediction' = p /\ input' = i /\ reference' = r
    /\ stage' = Steps[1]
    /\ node' = Unbound /\ parsed' = <<>> /\ label' = <<>> /\ distance' = Unbound
    /\ outcome' = NoOutcome /\ trace' = <<>>
    /\ UNCHANGED <<seen, instVars, canonVars>>

\* line 133, inner call: self._parse_json(prediction)
ParsePrediction ==
    /\ stage = "parse prediction"
    /\ LET r == _parse_json(prediction) IN
       /\ trace' = trace \o <<stage>>
                         \o (IF CallsExtractor(prediction) THEN <<"extract prediction">>
                             ELSE <<>>)
       /\ IF r.ok
          THEN /\ node' = r.val /\ stage' = After(stage)
               /\ UNCHANGED outcome
          ELSE /\ outcome' = Raised(r.err) /\ stage' = "done"
               /\ UNCHANGED node
    /\ UNCHANGED <<prediction, input, reference, parsed, label, distance, seen,
                   instVars, canonVars>>

\* line 133, outer call: parsed = self._canonicalize(...)
CanonicalizePrediction ==
    /\ stage = "canonicalize prediction"
    /\ parsed' = self_canonicalize(node)
    /\ trace' = Append(trace, stage)
    /\ stage' = After(stage)
    /\ UNCHANGED <<prediction, input, reference, node, label, distance, outcome,
                   seen, instVars, canonVars>>

\* line 134 parsing the input argument, when one is given, as the reference
ParseReferenceFromInput ==
    /\ stage = "parse reference"
    /\ LET arg == IF input # PyNone THEN input ELSE reference
           r == _parse_json(arg)
       IN
       /\ trace' = trace \o <<stage>>
                         \o (IF CallsExtractor(arg) THEN <<"extract reference">>
                             ELSE <<>>)
       /\ IF r.ok
          THEN /\ node' = r.val /\ stage' = After(stage)
               /\ UNCHANGED outcome
          ELSE /\ outcome' = Raised(r.err) /\ stage' = "done"
               /\ UNCHANGED node
    /\ UNCHANGED <<prediction, input, reference, parsed, label, distance, seen,
                   instVars, canonVars>>

\* line 134, inner call: self._parse_json(reference)
ParseReference ==
    /\ stage = "parse reference"
    /\ LET r == _parse_json(reference) IN
       /\ trace' = trace \o <<stage>>
                         \o (IF CallsExtractor(reference) THEN <<"extract reference">>
                             ELSE <<>>)
       /\ IF r.ok
          THEN /\ node' = r.val /\ stage' = After(stage)
               /\ UNCHANGED outcome
          ELSE /\ outcome' = Raised(r.err) /\ stage' = "done"
               /\ UNCHANGED node
    /\ UNCHANGED <<prediction, input, reference, parsed, label, distance, seen,
                   instVars, canonVars>>

\* line 134, outer call: label = self._canonicalize(...)
CanonicalizeReference ==
    /\ stage = "canonicalize reference"
    /\ label' = self_canonicalize(node)
    /\ trace' = Append(trace, stage)
    /\ stage' = After(stage)
    /\ UNCHANGED <<prediction, input, reference, node, parsed, distance, outcome,
                   seen, instVars, canonVars>>

\* lines 135-136 leaving another distance function bound to the instance
ScoreRebinding ==
    /\ stage = "distance"
    /\ distance' = _distance(parsed, label)
    /\ trace' = Append(trace, stage)
    /\ outcome' = Result(distance')
    /\ stage' = After(stage)
    /\ _string_distance' = "LengthDifference"
    /\ UNCHANGED <<prediction, input, reference, node, parsed, label, seen,
                   rapidfuzz, pc, init_args, _canonicalize, canonVars>>

\* lines 135-136: distance = self._distance(parsed, label); return {"score": distance}
Score ==
    /\ stage = "distance"
    /\ distance' = _distance(parsed, label)
    /\ trace' = Append(trace, stage)
    /\ outcome' = Result(distance')
    /\ stage' = After(stage)
    /\ UNCHANGED <<prediction, input, reference, node, parsed, label, seen,
                   instVars, canonVars>>

\* the finished call, as its caller saw it
Finished == [kind |-> "call", prediction |-> prediction, input |-> input,
             reference |-> reference, outcome |-> outcome]

\* the caller keeps the finished call to compare later calls with it
Remember ==
    /\ stage = "done" /\ seen # Finished
    /\ seen' = Finished
    /\ UNCHANGED <<stage, prediction, input, reference, node, parsed, label,
                   distance, outcome, trace, instVars, canonVars>>

Next ==
    \/ \E sd \in SuppliedDistances \cup {"None"},
          cn \in SuppliedCanonicalizers \cup {"None"} : Construct(sd, cn)
    \/ \E p \in Arguments, i \in InputArguments, r \in Arguments : Call(p, i, r)
    \/ ParsePrediction
    \/ CanonicalizePrediction
    \/ ParseReference
    \/ CanonicalizeReference
    \/ Score
    \/ Remember

Spec == Init /\ [][Next]_vars

----------------------------------------------------------------------------
(* Canonicalizer run: build two values that differ only in the insertion   *)
(* order of their mappings, at any depth, and canonicalize both.            *)

Keys == {<<"a">>, <<"B">>, <<"a", "b">>}
Scalars == {PyInt(-1), PyStr(<<"a", "\"">>)}

\* the arrangements (orders without repetition) of the keys in ks
RECURSIVE Arrangements(_)
Arrangements(ks) ==
    IF ks = {} THEN {<<>>}
    ELSE UNION {{<<k>> \o rest : rest \in Arrangements(ks \ {k})} : k \in ks}

\* the value stored under key k of a mapping whose nested child is c:
\* the child under the smallest key, a scalar under the others
ValueUnder(k, ks, c) ==
    IF \A o \in ks : k = o \/ StrLess(k, o) THEN c
    ELSE IF Len(k) = 1 THEN PyBool(FALSE) ELSE PyInt(10)

BuildDict(order, ks, c) ==
    PyDict([i \in 1..Len(order) |-> <<order[i], ValueUnder(order[i], ks, c)>>])

CanonInit ==
    /\ \E v \in Scalars : m1 = v /\ m2 = v
    /\ depth = 0
    /\ canon1 = <<>> /\ canon2 = <<>>
    /\ rapidfuzz = TRUE /\ pc = "new" /\ init_args = NoArgs
    /\ _string_distance = "unset" /\ _canonicalize = "unset"
    /\ stage = "idle" /\ prediction = PyNone /\ input = PyNone /\ reference = PyNone
    /\ node = Unbound /\ parsed = <<>> /\ label = <<>> /\ distance = Unbound
    /\ outcome = NoOutcome /\ trace = <<>> /\ seen = NoOutcome

\* put both values inside a sequence
WrapList ==
    /\ depth < MaxDepth /\ canon1 = <<>>
    /\ \E front \in BOOLEAN :
          /\ m1' = PyList(IF front THEN <<m1, PyNone>> ELSE <<m1>>)
          /\ m2' = PyList(IF front THEN <<m2, PyNone>> ELSE <<m2>>)
    /\ depth' = depth + 1
    /\ UNCHANGED <<canon1, canon2, instVars, evalVars>>

\* put both values inside mappings with the same keys and the same value under
\* every key, each built in an insertion order of its own
WrapDict ==
    /\ depth < MaxDepth /\ canon1 = <<>>
    /\ \E ks \in SUBSET Keys \ {{}} :
          \E o1 \in Arrangements(ks), o2 \in Arrangements(ks) :
             /\ m1' = BuildDict(o1, ks, m1)
             /\ m2' = BuildDict(o2, ks, m2)
    /\ depth' = depth + 1
    /\ UNCHANGED <<canon1, canon2, instVars, evalVars>>

\* canonicalize both with the default canonicalizer
Canonicalize ==
    /\ canon1 = <<>>
    /\ canon1' = DefaultCanonicalize(m1)
    /\ canon2' = DefaultCanonicalize(m2)
    /\ UNCHANGED <<m1, m2, depth, instVars, evalVars>>

CanonNext == WrapList \/ WrapDict \/ Canonicalize

CanonSpec == CanonInit /\ [][CanonNext]_vars

----------------------------------------------------------------------------
(* Properties *)

\* C1: with the default canonicalizer, two values that differ only in the
\* insertion order of their mappings, at any nesting depth, have the same
\* canonical string.
C1_KeyOrderInvariance == canon1 # <<>> => canon1 = canon2

\* a mapping of three keys, reordered, inside a sequence has been canonicalized
C1_Witness ==
    /\ canon1 # <<>> /\ m1 # m2 /\ depth = 2
    /\ m1.t = "list" /\ m1.items[1].t = "dict" /\ Len(m1.items[1].pairs) = 3
    /\ m1.items[1] # m2.items[1]

\* the extractor fails on the argument v
ExtractorFails(v) == IsStr(v) /\ ~parse_json_markdown(v.s).ok

\* the structural value the argument v stands for
ValueOf(v) == IF IsStr(v) THEN parse_json_markdown(v.s).val ELSE v

Zero == Fraction(0, 1)

\* C2: when the extractor fails on the prediction or on the reference, the call
\* ends with that parse error raised: no result is returned, no score is
\* computed and the distance function is not called.
C2_ParseErrorPropagates ==
    (stage = "done" /\ (ExtractorFails(prediction) \/ ExtractorFails(reference))) =>
        /\ outcome.kind = "raise"
        /\ outcome.err \in {ParseError(v.s) :
                               v \in {w \in {prediction, reference} : ExtractorFails(w)}}
        /\ distance = Unbound
        /\ \A k \in 1..Len(trace) : trace[k] # "distance"

\* the prediction was parsed and canonicalized, then the reference failed to parse
C2_Witness ==
    /\ stage = "done" /\ ~ExtractorFails(prediction) /\ ExtractorFails(reference)
    /\ parsed # <<>> /\ outcome.kind = "raise"

\* the callables __init__ was asked to configure: those supplied, the defaults
\* for those left out
ConfiguredDistance ==
    IF init_args.string_distance # "None" THEN init_args.string_distance
    ELSE "normalized_distance"
ConfiguredCanonicalizer ==
    IF init_args.canonicalize # "None" THEN init_args.canonicalize
    ELSE "DefaultCanonicalize"

\* C3: the score returned is the configured distance function applied to the
\* configured canonicalizer's strings for the prediction and for the reference,
\* in that order, unchanged, also when it lies outside [0, 1].
C3_ScoreIsDistance ==
    (stage = "done" /\ outcome.kind = "return") =>
        outcome.score =
            CallDistance(ConfiguredDistance,
                         CallCanonicalize(ConfiguredCanonicalizer, ValueOf(prediction)),
                         CallCanonicalize(ConfiguredCanonicalizer, ValueOf(reference)))

\* a supplied distance gave a negative score under a supplied canonicalizer
C3_Witness ==
    /\ stage = "done" /\ outcome.kind = "return" /\ outcome.score.num < 0
    /\ _canonicalize = "PlainDumps"

\* C4: evaluating a valid JSON value against itself gives the score 0 when the
\* distance function gives 0 for equal strings.
C4_IdentityScore ==
    (/\ stage = "done" /\ prediction = reference /\ ~ExtractorFails(prediction)
     /\ CallDistance(_string_distance, parsed, parsed) = Zero) =>
        outcome = Result(Zero)

\* a mapping given as a structural value was evaluated against itself
C4_Witness ==
    /\ stage = "done" /\ prediction = InDict /\ reference = InDict
    /\ _canonicalize = "PlainDumps" /\ outcome = Result(Zero)

\* C5: two calls with the same prediction and reference that differ in the
\* input argument have the same outcome: the same score or the same error.
C5_InputIgnored ==
    (/\ stage = "done" /\ seen.kind = "call"
     /\ seen.prediction = prediction /\ seen.reference = reference
     /\ seen.input # input) =>
        seen.outcome = outcome

\* two scored calls that differ only in the input argument
C5_Witness ==
    /\ stage = "done" /\ seen.kind = "call"
    /\ seen.prediction = prediction /\ seen.reference = reference
    /\ seen.input # input /\ outcome.kind = "return"

IsStructural(v) == v.t \in {"None", "bool", "int", "str", "list", "dict"}

\* C6 as stated: a string goes to the extractor, and every structural value,
\* strings among them, passes through _parse_json unchanged and without a call
\* of the extractor.
C6_AsStated ==
    stage = "canonicalize prediction" =>
        /\ IsStr(prediction) => node = parse_json_markdown(prediction.s).val
        /\ IsStructural(prediction) =>
              /\ node = prediction
              /\ \A k \in 1..Len(trace) : trace[k] # "extract prediction"

\* what _parse_json makes of the argument v, once the step for it is taken
ResolvedRight(v, extract) ==
    IF IsStr(v)
    THEN /\ \E k \in 1..Len(trace) : trace[k] = extract
         /\ IF ExtractorFails(v)
            THEN stage = "done" /\ outcome = Raised(ParseError(v.s))
            ELSE node = parse_json_markdown(v.s).val
    ELSE /\ node = v
         /\ \A k \in 1..Len(trace) : trace[k] # extract

\* C6, amended: a str is handed to the extractor and the extractor's result or
\* failure is the result; every other value (None, bool, number, list, dict)
\* is returned unchanged and the extractor is not called for it.
C6_Resolve ==
    /\ (trace # <<>> /\ trace[Len(trace)] \in {"parse prediction", "extract prediction"})
          => ResolvedRight(prediction, "extract prediction")
    /\ (trace # <<>> /\ trace[Len(trace)] \in {"parse reference", "extract reference"})
          => ResolvedRight(reference, "extract reference")

\* a mapping passed through _parse_json as it was, the extractor not called
C6_Witness ==
    /\ stage = "canonicalize prediction" /\ prediction = InDict /\ node = InDict
    /\ trace = <<"parse prediction">>

\* C7: __init__ raises ImportError exactly when no string_distance is given and
\* rapidfuzz is missing; a given string_distance is the one used, the default
\* one is used otherwise; no call runs without an instance.
C7_Construction ==
    /\ pc # "new" =>
          /\ (pc = "ImportError") <=> (init_args.string_distance = "None" /\ ~rapidfuzz)
          /\ init_args.string_distance # "None" =>
                (pc = "ready" /\ _string_distance = init_args.string_distance)
          /\ (init_args.string_distance = "None" /\ rapidfuzz) =>
                (pc = "ready" /\ _string_distance = "normalized_distance")
    /\ pc # "ready" => (stage = "idle" /\ outcome = NoOutcome)
    /\ stage # "idle" => _string_distance # "unset"

\* construction failed
C7_Witness == pc = "ImportError" /\ _string_distance = "unset"

\* a call with the prediction and reference of the call kept has the same outcome
SameAsSeen ==
    (/\ stage = "done" /\ seen.kind = "call"
     /\ seen.prediction = prediction /\ seen.reference = reference) =>
        seen.outcome = outcome

\* C8: no step of a call changes the configured distance function or
\* canonicalizer, and a call's outcome is that of any earlier call of the
\* instance with the same prediction and reference.
C8_NoSharedState ==
    [][pc = "ready" =>
         /\ _string_distance' = _string_distance
         /\ _canonicalize' = _canonicalize
         /\ SameAsSeen']_vars

\* a failing call repeated on the same instance
C8_Witness ==
    /\ stage = "done" /\ seen.kind = "call" /\ seen.input # input
    /\ seen.prediction = prediction /\ seen.reference = reference
    /\ outcome.kind = "raise" /\ ~ExtractorFails(prediction)

\* the calls a call with prediction p and reference r makes when nothing fails
ExpectedTrace(p, r) ==
    <<"parse prediction">>
    \o (IF IsStr(p) THEN <<"extract prediction">> ELSE <<>>)
    \o <<"canonicalize prediction", "parse reference">>
    \o (IF IsStr(r) THEN <<"extract reference">> ELSE <<>>)
    \o <<"canonicalize reference", "distance">>

IsPrefix(s, t) == Len(s) <= Len(t) /\ SubSeq(t, 1, Len(s)) = s

\* C9: a call resolves and canonicalizes the prediction, then the reference,
\* then calls the distance function once; when the prediction fails to parse
\* the reference is never resolved and the error raised is the prediction's.
C9_StepOrder ==
    stage # "idle" =>
        /\ IsPrefix(trace, ExpectedTrace(prediction, reference))
        /\ (stage = "done" /\ outcome.kind = "return") =>
              trace = ExpectedTrace(prediction, reference)
        /\ (stage = "done" /\ ExtractorFails(prediction)) =>
              /\ trace = <<"parse prediction", "extract prediction">>
              /\ outcome = Raised(ParseError(prediction.s))

\* both arguments are unparseable, each in its own way
C9_Witness ==
    /\ stage = "done" /\ ExtractorFails(prediction) /\ ExtractorFails(reference)
    /\ prediction # reference

\* C10: with the reference left out (None) and a parseable prediction the call
\* raises nothing: None passes through _parse_json, is canonicalized as null,
\* and the score is the distance from the prediction's canonical string to
\* that of null, although requires_reference is true.
C10_MissingReference ==
    (stage = "done" /\ reference = PyNone /\ ~ExtractorFails(prediction)) =>
        /\ requires_reference
        /\ outcome.kind = "return"
        /\ label = <<"n", "u", "l", "l">>
        /\ \A k \in 1..Len(trace) : trace[k] # "extract reference"
        /\ outcome.score =
              CallDistance(_string_distance,
                           CallCanonicalize(_canonicalize, ValueOf(prediction)),
                           <<"n", "u", "l", "l">>)

\* a parsed prediction was scored against a missing reference
C10_Witness ==
    /\ stage = "done" /\ reference = PyNone /\ prediction = InJson
    /\ outcome.kind = "return" /\ outcome.score # Zero

====
